---- MODULE Spec2Model ----
(***************************************************************************)
(* Request handlers of the pizza catalog API (src/src/main.py) over the    *)
(* entity store.  The handlers are translated from main.py; the store      *)
(* access layer (CRUD), the credential utilities (utils) and the identity  *)
(* dependency (deps) are imported by main.py and modelled from the         *)
(* written specification of the system.                                    *)
(*                                                                         *)
(* Spec      : requests are served one at a time, one action per handler.   *)
(* SpecPizza : the pizza handlers alone, over the full field domains.       *)
(* ConcSpec  : add-association, remove-association and delete-ingredient   *)
(*             requests run on worker threads and interleave between their *)
(*             store calls.                                                *)
(* ConcCatalogSpec : the same for the partial updates of pizzas and        *)
(*             ingredients, with delete-ingredient requests.               *)
(***************************************************************************)
EXTENDS Bags, FiniteSets, Integers, Sequences, TLC

\* ------------------------------------------------------------------ bounds
MaxPizzas == 2
MaxIngredients == 2

Usernames == {"u1", "u2"}
Emails == {"e1", "e2"}
Passwords == {"p1", "p2"}
PizzaNames == {"margherita", "napoli"}
Prices == {1, 2}
Workers == {"w1", "w2"}

PizzaIds == 1..MaxPizzas
IngredientIds == 1..MaxIngredients

\* --------------------------------------------------- Python's None / values
None == <<>>
Some(v) == <<v>>
Val(o) == o[1]
Opt(S) == {None} \cup {Some(v) : v \in S}

\* ------------------------------------------------------------------- state
VARIABLES users, pizzas, ingredients, next_ingredient_id, assocs, last, workers

store == <<users, pizzas, ingredients, next_ingredient_id, assocs>>
vars == <<users, pizzas, ingredients, next_ingredient_id, assocs, last, workers>>

\* ------------------------------------------------- utils (credential service)
get_hashed_password(password) == <<"hash", password>>
verify_password(password, hashed_pass) == hashed_pass = get_hashed_password(password)
create_access_token(subject) == [kind |-> "access", sub |-> subject]
create_refresh_token(subject) == [kind |-> "refresh", sub |-> subject]

Tokens == [kind : {"access", "refresh"}, sub : Emails]

\* ---------------------------------------------------- deps (identity resolution)
get_current_user(us, token) ==
    IF token.kind = "access" /\ \E u \in us : u.email = token.sub
    THEN Some(CHOOSE u \in us : u.email = token.sub)
    ELSE None

\* ------------------------------------------------------- CRUD: users
get_user_by_username(us, username) ==
    IF \E u \in us : u.username = username
    THEN Some(CHOOSE u \in us : u.username = username)
    ELSE None

\* `user` is an optional UserCreate; building the record reads its fields, so a
\* None argument raises before anything is stored, and the unique constraints on
\* username and email reject a duplicate.
CRUD_create_user(us, user) ==
    IF user = None
    THEN [raised |-> TRUE, users |-> us, user |-> None]
    ELSE LET d == Val(user)
             rec == [username |-> d.username, email |-> d.email,
                     password |-> get_hashed_password(d.password)]
         IN IF \E u \in us : u.username = d.username \/ u.email = d.email
            THEN [raised |-> TRUE, users |-> us, user |-> None]
            ELSE [raised |-> FALSE, users |-> us \cup {rec}, user |-> Some(rec)]

\* ------------------------------------------------------- CRUD: pizzas
\* pizzas is the table in id order: the pizza with id k is pizzas[k].
PizzaRow(pz, id) ==
    [id |-> id, name |-> pz[id].name, price |-> pz[id].price, is_active |-> pz[id].is_active]

get_pizza(pz, pizza_id) ==
    IF pizza_id \in DOMAIN pz THEN Some(PizzaRow(pz, pizza_id)) ELSE None

get_pizza_list(pz, get_all) ==
    SelectSeq([k \in 1..Len(pz) |-> PizzaRow(pz, k)], LAMBDA p : get_all \/ p.is_active)

CRUD_create_pizza(pz, new_pizza) ==
    Append(pz, [name |-> new_pizza.name, price |-> new_pizza.price,
                is_active |-> new_pizza.is_active])

CRUD_change_pizza(pz, pizza, name, price, is_active) ==
    [pz EXCEPT ![pizza.id] =
        [name |-> IF name = None THEN @.name ELSE Val(name),
         price |-> IF price = None THEN @.price ELSE Val(price),
         is_active |-> IF is_active = None THEN @.is_active ELSE Val(is_active)]]

\* ------------------------------------------------------- CRUD: ingredients
IngredientRow(ings, id) ==
    [id |-> id, name |-> ings[id].name, category |-> ings[id].category]

get_ingredient(ings, ingredient_id) ==
    IF ingredient_id \in DOMAIN ings THEN Some(IngredientRow(ings, ingredient_id)) ELSE None

CRUD_create_ingredient(ings, id, new_ingredient) ==
    [k \in DOMAIN ings \cup {id} |->
        IF k = id THEN [name |-> new_ingredient.name, category |-> new_ingredient.category]
        ELSE ings[k]]

\* The update is written to the row of the object read before; when that row
\* is gone the write matches nothing and raises.
CRUD_change_ingredient(ings, ingredient, name, category) ==
    IF ingredient.id \notin DOMAIN ings
    THEN [raised |-> TRUE, ingredients |-> ings]
    ELSE [raised |-> FALSE,
          ingredients |-> [ings EXCEPT ![ingredient.id] =
              [name |-> IF name = None THEN @.name ELSE Val(name),
               category |-> IF category = None THEN @.category ELSE Val(category)]]]

\* Conditional deletion: reports False, and deletes nothing, while an association
\* row references the ingredient.
CRUD_delete_ingredient(ings, as, ingredient) ==
    IF \E row \in BagToSet(as) : row[2] = ingredient.id
    THEN [deleted |-> FALSE, ingredients |-> ings]
    ELSE [deleted |-> TRUE,
          ingredients |-> [k \in DOMAIN ings \ {ingredient.id} |-> ings[k]]]

\* ------------------------------------------------------- CRUD: associations
\* assocs is the bag of association rows <<pizza_id, ingredient_id>>.
get_pizza_ing_association(as, pizza_id, ingredient_id) ==
    IF BagIn(<<pizza_id, ingredient_id>>, as)
    THEN Some([pizza_id |-> pizza_id, ingredient_id |-> ingredient_id])
    ELSE None

add_pizza_ing_association_no_key(pz, ings, as, pizza_id, ingredient_id) ==
    IF pizza_id \notin DOMAIN pz \/ ingredient_id \notin DOMAIN ings
    THEN [raised |-> TRUE, assocs |-> as, row |-> None]
    ELSE [raised |-> FALSE,
          assocs |-> as (+) SetToBag({<<pizza_id, ingredient_id>>}),
          row |-> Some([pizza_id |-> pizza_id, ingredient_id |-> ingredient_id])]

add_pizza_ing_association_no_parents(pz, ings, as, pizza_id, ingredient_id) ==
    IF BagIn(<<pizza_id, ingredient_id>>, as)
    THEN [raised |-> TRUE, assocs |-> as, row |-> None]
    ELSE [raised |-> FALSE,
          assocs |-> as (+) SetToBag({<<pizza_id, ingredient_id>>}),
          row |-> Some([pizza_id |-> pizza_id, ingredient_id |-> ingredient_id])]

\* Creating a row requires both referenced entities to exist, and the pair is
\* the key of the row: the store rejects a row for a missing pizza or
\* ingredient and a second row for a pair.
add_pizza_ing_association(pz, ings, as, pizza_id, ingredient_id) ==
    IF \/ pizza_id \notin DOMAIN pz
       \/ ingredient_id \notin DOMAIN ings
       \/ BagIn(<<pizza_id, ingredient_id>>, as)
    THEN [raised |-> TRUE, assocs |-> as, row |-> None]
    ELSE [raised |-> FALSE,
          assocs |-> as (+) SetToBag({<<pizza_id, ingredient_id>>}),
          row |-> Some([pizza_id |-> pizza_id, ingredient_id |-> ingredient_id])]

delete_pizza_ing_association(as, association) ==
    as (-) SetToBag({<<association.pizza_id, association.ingredient_id>>})

\* models.Pizza.ingredients: the association rows owned by the pizza.
pizza_ingredients(as, pizza_id) ==
    [row \in {r \in BagToSet(as) : r[1] = pizza_id} |-> as[row]]

\* ------------------------------------------------------------- responses
Response(op, token, args, status, detail, body) ==
    [op |-> op, token |-> token, args |-> args,
     status |-> status, detail |-> detail, body |-> body]

Unauthorized(op, token, args) ==
    Response(op, Some(token), args, 401, "Not authenticated", None)

Idle == [pc |-> "idle"]

Init ==
    /\ users \in SUBSET {[username |-> "u1", email |-> "e1",
                          password |-> get_hashed_password("p1")]}
    /\ pizzas = <<>>
    /\ ingredients = <<>>
    /\ next_ingredient_id = 1
    /\ assocs = EmptyBag
    /\ last = Response("start", None, None, 0, "", None)
    /\ workers = [w \in Workers |-> Idle]

\* ================================================================ handlers
create_user_no_lookup(data) ==
    LET r == CRUD_create_user(users, Some(data)) IN
    /\ users' = r.users
    /\ last' = IF r.raised
               THEN Response("create_user", None, data, 500, "Internal Server Error", None)
               ELSE Response("create_user", None, data, 200, "",
                             Some([username |-> Val(r.user).username,
                                   email |-> Val(r.user).email]))
    /\ UNCHANGED <<pizzas, ingredients, next_ingredient_id, assocs, workers>>

\* POST /signup
create_user(data) ==
    LET user == get_user_by_username(users, data.username) IN
    /\ IF user = None
       THEN LET r == CRUD_create_user(users, user) IN
            /\ users' = r.users
            /\ last' = IF r.raised
                       THEN Response("create_user", None, data, 500,
                                     "Internal Server Error", None)
                       ELSE Response("create_user", None, data, 200, "",
                                     Some([username |-> Val(r.user).username,
                                           email |-> Val(r.user).email]))
       ELSE /\ users' = users
            /\ last' = Response("create_user", None, data, 400,
                                "The username already exists", None)
    /\ UNCHANGED <<pizzas, ingredients, next_ingredient_id, assocs, workers>>

login_user_not_found(form_data) ==
    LET user == get_user_by_username(users, form_data.username) IN
    /\ last' = IF user = None
               THEN Response("login", None, form_data, 404, "User not found", None)
               ELSE IF verify_password(form_data.password, Val(user).password)
               THEN Response("login", None, form_data, 200, "",
                             Some([access_token |-> create_access_token(Val(user).email),
                                   refresh_token |-> create_refresh_token(Val(user).email)]))
               ELSE Response("login", None, form_data, 400,
                             "Incorrect username or password", None)
    /\ UNCHANGED <<store, workers>>

\* POST /login
login(form_data) ==
    LET user == get_user_by_username(users, form_data.username) IN
    /\ last' = IF user = None
               THEN Response("login", None, form_data, 400,
                             "Incorrect username or password", None)
               ELSE IF verify_password(form_data.password, Val(user).password)
               THEN Response("login", None, form_data, 200, "",
                             Some([access_token |-> create_access_token(Val(user).email),
                                   refresh_token |-> create_refresh_token(Val(user).email)]))
               ELSE Response("login", None, form_data, 400,
                             "Incorrect username or password", None)
    /\ UNCHANGED <<store, workers>>

show_pizzas_not_recomputed(token) ==
    /\ last' = IF get_current_user(users, token) = None
               THEN Unauthorized("show_pizzas", token, None)
               ELSE LET pizza_list == get_pizza_list(pizzas, TRUE)
                    IN Response("show_pizzas", Some(token), None, 200, "",
                           Some([k \in 1..Len(pizza_list) |->
                                 [id |-> pizza_list[k].id,
                                  name |-> pizza_list[k].name,
                                  price |-> pizza_list[k].price,
                                  is_active |-> pizza_list[k].is_active,
                                  ingredient_number |-> 0]]))
    /\ UNCHANGED <<store, workers>>

\* GET /pizzas
show_pizzas(token) ==
    /\ last' = IF get_current_user(users, token) = None
               THEN Unauthorized("show_pizzas", token, None)
               ELSE LET get_all == TRUE
                        pizza_list == get_pizza_list(pizzas, get_all)
                    IN Response("show_pizzas", Some(token), None, 200, "",
                           Some([k \in 1..Len(pizza_list) |->
                                 [id |-> pizza_list[k].id,
                                  name |-> pizza_list[k].name,
                                  price |-> pizza_list[k].price,
                                  is_active |-> pizza_list[k].is_active,
                                  ingredient_number |->
                                      BagCardinality(pizza_ingredients(assocs, pizza_list[k].id))]]))
    /\ UNCHANGED <<store, workers>>

\* GET /pizzas/{pizza_id}
show_pizza_details(pizza_id) ==
    LET pizza_detail == get_pizza(pizzas, pizza_id) IN
    /\ last' = IF pizza_detail = None
               THEN Response("show_pizza_details", None, [pizza_id |-> pizza_id], 404,
                             "Pizza not found", None)
               ELSE Response("show_pizza_details", None, [pizza_id |-> pizza_id], 200, "",
                             Some([pizza |-> Val(pizza_detail),
                                   ingredients |-> {row[2] : row \in
                                       BagToSet(pizza_ingredients(assocs, pizza_id))}]))
    /\ UNCHANGED <<store, workers>>

\* POST /pizzas/
create_pizza(token, new_pizza) ==
    /\ IF get_current_user(users, token) = None
       THEN /\ pizzas' = pizzas
            /\ last' = Unauthorized("create_pizza", token, new_pizza)
       ELSE /\ Len(pizzas) < MaxPizzas
            /\ pizzas' = CRUD_create_pizza(pizzas, new_pizza)
            /\ last' = Response("create_pizza", Some(token), new_pizza, 200, "",
                                Some(PizzaRow(pizzas', Len(pizzas'))))
    /\ UNCHANGED <<users, ingredients, next_ingredient_id, assocs, workers>>

change_pizza_default_true(token, pizza_id, name, price, is_active) ==
    LET args == [pizza_id |-> pizza_id, name |-> name, price |-> price,
                 is_active |-> is_active]
        pizza_detail == get_pizza(pizzas, pizza_id)
    IN
    /\ IF get_current_user(users, token) = None
       THEN /\ pizzas' = pizzas
            /\ last' = Unauthorized("change_pizza", token, args)
       ELSE IF pizza_detail = None
       THEN /\ pizzas' = pizzas
            /\ last' = Response("change_pizza", Some(token), args, 404,
                                "Pizza not found.", None)
       ELSE /\ pizzas' = CRUD_change_pizza(pizzas, Val(pizza_detail), name, price,
                                           IF is_active = None THEN Some(TRUE) ELSE is_active)
            /\ last' = Response("change_pizza", Some(token), args, 200, "",
                                Some(PizzaRow(pizzas', pizza_id)))
    /\ UNCHANGED <<users, ingredients, next_ingredient_id, assocs, workers>>

\* PATCH /pizzas/{pizza_id}
change_pizza(token, pizza_id, name, price, is_active) ==
    LET args == [pizza_id |-> pizza_id, name |-> name, price |-> price,
                 is_active |-> is_active]
        pizza_detail == get_pizza(pizzas, pizza_id)
    IN
    /\ IF get_current_user(users, token) = None
       THEN /\ pizzas' = pizzas
            /\ last' = Unauthorized("change_pizza", token, args)
       ELSE IF pizza_detail = None
       THEN /\ pizzas' = pizzas
            /\ last' = Response("change_pizza", Some(token), args, 404,
                                "Pizza not found.", None)
       ELSE /\ pizzas' = CRUD_change_pizza(pizzas, Val(pizza_detail), name, price, is_active)
            /\ last' = Response("change_pizza", Some(token), args, 200, "",
                                Some(PizzaRow(pizzas', pizza_id)))
    /\ UNCHANGED <<users, ingredients, next_ingredient_id, assocs, workers>>

\* POST /ingredients
create_ingredient(token, new_ingredient) ==
    /\ IF get_current_user(users, token) = None
       THEN /\ UNCHANGED <<ingredients, next_ingredient_id>>
            /\ last' = Unauthorized("create_ingredient", token, new_ingredient)
       ELSE /\ next_ingredient_id <= MaxIngredients
            /\ ingredients' = CRUD_create_ingredient(ingredients, next_ingredient_id,
                                                     new_ingredient)
            /\ next_ingredient_id' = next_ingredient_id + 1
            /\ last' = Response("create_ingredient", Some(token), new_ingredient, 200, "",
                                Some(IngredientRow(ingredients', next_ingredient_id)))
    /\ UNCHANGED <<users, pizzas, assocs, workers>>

\* PATCH /ingredients/{ingredient_id}
change_ingredient(token, ingredient_id, name, category) ==
    LET args == [ingredient_id |-> ingredient_id, name |-> name, category |-> category]
        ingredient == get_ingredient(ingredients, ingredient_id)
    IN
    /\ IF get_current_user(users, token) = None
       THEN /\ ingredients' = ingredients
            /\ last' = Unauthorized("change_ingredient", token, args)
       ELSE IF ingredient = None
       THEN /\ ingredients' = ingredients
            /\ last' = Response("change_ingredient", Some(token), args, 404,
                                "Ingredient not found.", None)
       ELSE LET r == CRUD_change_ingredient(ingredients, Val(ingredient), name, category) IN
            /\ ingredients' = r.ingredients
            /\ last' = IF r.raised
                       THEN Response("change_ingredient", Some(token), args, 500,
                                     "Internal Server Error", None)
                       ELSE Response("change_ingredient", Some(token), args, 200, "",
                                     Some(IngredientRow(ingredients', ingredient_id)))
    /\ UNCHANGED <<users, pizzas, next_ingredient_id, assocs, workers>>

delete_ingredient_result_ignored(token, ingredient_id) ==
    LET args == [ingredient_id |-> ingredient_id]
        ingredient == get_ingredient(ingredients, ingredient_id)
    IN
    /\ IF get_current_user(users, token) = None
       THEN /\ ingredients' = ingredients
            /\ last' = Unauthorized("delete_ingredient", token, args)
       ELSE IF ingredient = None
       THEN /\ ingredients' = ingredients
            /\ last' = Response("delete_ingredient", Some(token), args, 404,
                                "Ingredient not found.", None)
       ELSE LET r == CRUD_delete_ingredient(ingredients, assocs, Val(ingredient)) IN
            /\ ingredients' = r.ingredients
            /\ last' = Response("delete_ingredient", Some(token), args, 200, "",
                                Some([status |-> "completed",
                                      name |-> Val(ingredient).name,
                                      id |-> Val(ingredient).id]))
    /\ UNCHANGED <<users, pizzas, next_ingredient_id, assocs, workers>>

\* DELETE /ingredients/{ingredient_id}
delete_ingredient(token, ingredient_id) ==
    LET args == [ingredient_id |-> ingredient_id]
        ingredient == get_ingredient(ingredients, ingredient_id)
    IN
    /\ IF get_current_user(users, token) = None
       THEN /\ ingredients' = ingredients
            /\ last' = Unauthorized("delete_ingredient", token, args)
       ELSE IF ingredient = None
       THEN /\ ingredients' = ingredients
            /\ last' = Response("delete_ingredient", Some(token), args, 404,
                                "Ingredient not found.", None)
       ELSE LET r == CRUD_delete_ingredient(ingredients, assocs, Val(ingredient)) IN
            /\ ingredients' = r.ingredients
            /\ last' = IF r.deleted
                       THEN Response("delete_ingredient", Some(token), args, 200, "",
                                     Some([status |-> "completed",
                                           name |-> Val(ingredient).name,
                                           id |-> Val(ingredient).id]))
                       ELSE Response("delete_ingredient", Some(token), args, 400,
                                     "Cannot delete an ingredient in an active pizza", None)
    /\ UNCHANGED <<users, pizzas, next_ingredient_id, assocs, workers>>

add_ingredient_to_pizza_no_lookup(token, pizza_id, ingredient_id) ==
    LET args == [pizza_id |-> pizza_id, ingredient_id |-> ingredient_id] IN
    /\ IF get_current_user(users, token) = None
       THEN /\ assocs' = assocs
            /\ last' = Unauthorized("add_ingredient_to_pizza", token, args)
       ELSE IF get_pizza(pizzas, pizza_id) = None
       THEN /\ assocs' = assocs
            /\ last' = Response("add_ingredient_to_pizza", Some(token), args, 404,
                                "Pizza not found", None)
       ELSE IF get_ingredient(ingredients, ingredient_id) = None
       THEN /\ assocs' = assocs
            /\ last' = Response("add_ingredient_to_pizza", Some(token), args, 404,
                                "Ingredient not found", None)
       ELSE LET r == add_pizza_ing_association(pizzas, ingredients, assocs, pizza_id, ingredient_id) IN
            /\ assocs' = r.assocs
            /\ last' = IF r.raised
                       THEN Response("add_ingredient_to_pizza", Some(token), args, 500,
                                     "Internal Server Error", None)
                       ELSE Response("add_ingredient_to_pizza", Some(token), args, 200, "",
                                     r.row)
    /\ UNCHANGED <<users, pizzas, ingredients, next_ingredient_id, workers>>

\* POST /pizzas/ingredients/{pizza_id}/{ingredient_id}
add_ingredient_to_pizza(token, pizza_id, ingredient_id) ==
    LET args == [pizza_id |-> pizza_id, ingredient_id |-> ingredient_id] IN
    /\ IF get_current_user(users, token) = None
       THEN /\ assocs' = assocs
            /\ last' = Unauthorized("add_ingredient_to_pizza", token, args)
       ELSE IF get_pizza(pizzas, pizza_id) = None
       THEN /\ assocs' = assocs
            /\ last' = Response("add_ingredient_to_pizza", Some(token), args, 404,
                                "Pizza not found", None)
       ELSE IF get_ingredient(ingredients, ingredient_id) = None
       THEN /\ assocs' = assocs
            /\ last' = Response("add_ingredient_to_pizza", Some(token), args, 404,
                                "Ingredient not found", None)
       ELSE IF get_pizza_ing_association(assocs, pizza_id, ingredient_id) # None
       THEN /\ assocs' = assocs
            /\ last' = Response("add_ingredient_to_pizza", Some(token), args, 400,
                                "Association already exists", None)
       ELSE LET r == add_pizza_ing_association(pizzas, ingredients, assocs, pizza_id, ingredient_id) IN
            /\ assocs' = r.assocs
            /\ last' = IF r.raised
                       THEN Response("add_ingredient_to_pizza", Some(token), args, 500,
                                     "Internal Server Error", None)
                       ELSE Response("add_ingredient_to_pizza", Some(token), args, 200, "",
                                     r.row)
    /\ UNCHANGED <<users, pizzas, ingredients, next_ingredient_id, workers>>

remove_ingredient_to_pizza_no_lookup(token, pizza_id, ingredient_id) ==
    LET args == [pizza_id |-> pizza_id, ingredient_id |-> ingredient_id] IN
    /\ IF get_current_user(users, token) = None
       THEN /\ assocs' = assocs
            /\ last' = Unauthorized("remove_ingredient_to_pizza", token, args)
       ELSE /\ assocs' = delete_pizza_ing_association(assocs, args)
            /\ last' = Response("remove_ingredient_to_pizza", Some(token), args, 200, "",
                                Some([status |-> "completed",
                                      ingredient_id |-> ingredient_id,
                                      pizza_id |-> pizza_id]))
    /\ UNCHANGED <<users, pizzas, ingredients, next_ingredient_id, workers>>

\* DELETE /pizzas/ingredients/{pizza_id}/{ingredient_id}
remove_ingredient_to_pizza(token, pizza_id, ingredient_id) ==
    LET args == [pizza_id |-> pizza_id, ingredient_id |-> ingredient_id]
        association == get_pizza_ing_association(assocs, pizza_id, ingredient_id)
    IN
    /\ IF get_current_user(users, token) = None
       THEN /\ assocs' = assocs
            /\ last' = Unauthorized("remove_ingredient_to_pizza", token, args)
       ELSE IF association = None
       THEN /\ assocs' = assocs
            /\ last' = Response("remove_ingredient_to_pizza", Some(token), args, 404,
                                "Association not found", None)
       ELSE /\ assocs' = delete_pizza_ing_association(assocs, Val(association))
            /\ last' = Response("remove_ingredient_to_pizza", Some(token), args, 200, "",
                                Some([status |-> "completed",
                                      ingredient_id |-> Val(association).ingredient_id,
                                      pizza_id |-> Val(association).pizza_id]))
    /\ UNCHANGED <<users, pizzas, ingredients, next_ingredient_id, workers>>

\* ===================================================== serial specification
\* Requests are served one after the other.  Catalog entries are created with
\* one value each and only the active flag of the first pizza is changed here;
\* SpecPizza varies every field of every pizza.
UserCreate == [username : Usernames, email : Emails, password : Passwords]
LoginForm == [username : Usernames, password : Passwords]
RequestTokens == {create_access_token("e1"), create_refresh_token("e1")}
PlainPizza == [name : {"margherita"}, price : {1}, is_active : {TRUE}]
FirstPizza == {1}
PlainIngredient == [name : {"basil"}, category : {"veg"}]
PizzaCreate == [name : PizzaNames, price : Prices, is_active : BOOLEAN]

Next ==
    \/ \E data \in UserCreate : create_user(data)
    \/ \E form_data \in LoginForm : login(form_data)
    \/ \E token \in RequestTokens : show_pizzas(token)
    \/ \E pizza_id \in PizzaIds : show_pizza_details(pizza_id)
    \/ \E token \in RequestTokens, new_pizza \in PlainPizza : create_pizza(token, new_pizza)
    \/ \E token \in RequestTokens, pizza_id \in FirstPizza, is_active \in Opt(BOOLEAN) :
          change_pizza(token, pizza_id, None, None, is_active)
    \/ \E token \in RequestTokens, new_ingredient \in PlainIngredient :
          create_ingredient(token, new_ingredient)
    \/ \E token \in RequestTokens, ingredient_id \in IngredientIds,
          name \in Opt({"basil"}), category \in Opt({"veg"}) :
          change_ingredient(token, ingredient_id, name, category)
    \/ \E token \in RequestTokens, ingredient_id \in IngredientIds :
          delete_ingredient(token, ingredient_id)
    \/ \E token \in RequestTokens, pizza_id \in PizzaIds, ingredient_id \in IngredientIds :
          add_ingredient_to_pizza(token, pizza_id, ingredient_id)
    \/ \E token \in RequestTokens, pizza_id \in PizzaIds, ingredient_id \in IngredientIds :
          remove_ingredient_to_pizza(token, pizza_id, ingredient_id)

Spec == Init /\ [][Next]_vars

\* ====================================================== pizza specification
\* The pizza handlers over every field value.
NextPizza ==
    \/ \E pizza_id \in PizzaIds : show_pizza_details(pizza_id)
    \/ \E token \in RequestTokens, new_pizza \in PizzaCreate : create_pizza(token, new_pizza)
    \/ \E token \in RequestTokens, pizza_id \in PizzaIds, name \in Opt(PizzaNames),
          price \in Opt(Prices), is_active \in Opt(BOOLEAN) :
          change_pizza(token, pizza_id, name, price, is_active)

SpecPizza == Init /\ [][NextPizza]_vars

\* ================================================ concurrent specifications
\* Synchronous handlers run on worker threads, so requests interleave between
\* their store calls.  A worker holds the request it serves and pc, the store
\* call of the handler it makes next; each step below is one store call.
At(pc, op, args) == [pc |-> pc, op |-> op, args |-> args]

Done(op, status) == [pc |-> "done", op |-> op, status |-> status]

\* The request arrives and its caller is resolved (Depends(get_current_user)).
start(w, token, op, first_pc, args) ==
    /\ workers[w].pc = "idle"
    /\ workers' = [workers EXCEPT ![w] =
          IF get_current_user(users, token) = None
          THEN Done(op, 401)
          ELSE At(first_pc, op, args)]
    /\ UNCHANGED <<store, last>>

\* ---- add_ingredient_to_pizza
add_start(w, token, pizza_id, ingredient_id) ==
    start(w, token, "add_ingredient_to_pizza", "add:get_pizza",
          [pizza_id |-> pizza_id, ingredient_id |-> ingredient_id])

\* CRUD.get_pizza
add_get_pizza(w) ==
    /\ workers[w].pc = "add:get_pizza"
    /\ workers' = [workers EXCEPT ![w] =
          IF get_pizza(pizzas, @.args.pizza_id) = None
          THEN Done(@.op, 404)
          ELSE [@ EXCEPT !.pc = "add:get_ingredient"]]
    /\ UNCHANGED <<store, last>>

\* CRUD.get_ingredient
add_get_ingredient(w) ==
    /\ workers[w].pc = "add:get_ingredient"
    /\ workers' = [workers EXCEPT ![w] =
          IF get_ingredient(ingredients, @.args.ingredient_id) = None
          THEN Done(@.op, 404)
          ELSE [@ EXCEPT !.pc = "add:get_pizza_ing_association"]]
    /\ UNCHANGED <<store, last>>

\* CRUD.get_pizza_ing_association
add_get_association(w) ==
    /\ workers[w].pc = "add:get_pizza_ing_association"
    /\ workers' = [workers EXCEPT ![w] =
          IF get_pizza_ing_association(assocs, @.args.pizza_id, @.args.ingredient_id) # None
          THEN Done(@.op, 400)
          ELSE [@ EXCEPT !.pc = "add:add_pizza_ing_association"]]
    /\ UNCHANGED <<store, last>>

\* CRUD.add_pizza_ing_association
add_insert(w) ==
    /\ workers[w].pc = "add:add_pizza_ing_association"
    /\ LET r == add_pizza_ing_association(pizzas, ingredients, assocs, workers[w].args.pizza_id,
                                          workers[w].args.ingredient_id) IN
       /\ assocs' = r.assocs
       /\ workers' = [workers EXCEPT ![w] =
                         Done(@.op, IF r.raised THEN 500 ELSE 200)]
    /\ UNCHANGED <<users, pizzas, ingredients, next_ingredient_id, last>>

\* ---- delete_ingredient
delete_start(w, token, ingredient_id) ==
    start(w, token, "delete_ingredient", "delete:get_ingredient",
          [ingredient_id |-> ingredient_id])

\* CRUD.get_ingredient
delete_get_ingredient(w) ==
    /\ workers[w].pc = "delete:get_ingredient"
    /\ workers' = [workers EXCEPT ![w] =
          IF get_ingredient(ingredients, @.args.ingredient_id) = None
          THEN Done(@.op, 404)
          ELSE [@ EXCEPT !.pc = "delete:delete_ingredient"]]
    /\ UNCHANGED <<store, last>>

\* CRUD.delete_ingredient on the object fetched before
delete_delete(w) ==
    /\ workers[w].pc = "delete:delete_ingredient"
    /\ LET r == CRUD_delete_ingredient(ingredients, assocs,
                                       [id |-> workers[w].args.ingredient_id]) IN
       /\ ingredients' = r.ingredients
       /\ workers' = [workers EXCEPT ![w] =
                         Done(@.op, IF r.deleted THEN 200 ELSE 400)]
    /\ UNCHANGED <<users, pizzas, next_ingredient_id, assocs, last>>

\* ---- remove_ingredient_to_pizza
remove_start(w, token, pizza_id, ingredient_id) ==
    start(w, token, "remove_ingredient_to_pizza", "remove:get_pizza_ing_association",
          [pizza_id |-> pizza_id, ingredient_id |-> ingredient_id])

\* CRUD.get_pizza_ing_association
remove_get_association(w) ==
    /\ workers[w].pc = "remove:get_pizza_ing_association"
    /\ workers' = [workers EXCEPT ![w] =
          IF get_pizza_ing_association(assocs, @.args.pizza_id, @.args.ingredient_id) = None
          THEN Done(@.op, 404)
          ELSE [@ EXCEPT !.pc = "remove:delete_pizza_ing_association"]]
    /\ UNCHANGED <<store, last>>

\* CRUD.delete_pizza_ing_association on the row fetched before; the handler
\* returns 200 after it whatever the store holds by then.
remove_delete(w) ==
    /\ workers[w].pc = "remove:delete_pizza_ing_association"
    /\ assocs' = delete_pizza_ing_association(assocs, workers[w].args)
    /\ workers' = [workers EXCEPT ![w] = Done(@.op, 200)]
    /\ UNCHANGED <<users, pizzas, ingredients, next_ingredient_id, last>>

\* ---- change_ingredient
change_ingredient_start(w, token, ingredient_id, name, category) ==
    start(w, token, "change_ingredient", "change_ingredient:get_ingredient",
          [ingredient_id |-> ingredient_id, name |-> name, category |-> category])

\* CRUD.get_ingredient
change_ingredient_get(w) ==
    /\ workers[w].pc = "change_ingredient:get_ingredient"
    /\ workers' = [workers EXCEPT ![w] =
          IF get_ingredient(ingredients, @.args.ingredient_id) = None
          THEN Done(@.op, 404)
          ELSE [@ EXCEPT !.pc = "change_ingredient:change_ingredient"]]
    /\ UNCHANGED <<store, last>>

\* CRUD.change_ingredient on the object fetched before
change_ingredient_update(w) ==
    /\ workers[w].pc = "change_ingredient:change_ingredient"
    /\ LET a == workers[w].args
           r == CRUD_change_ingredient(ingredients, [id |-> a.ingredient_id],
                                       a.name, a.category) IN
       /\ ingredients' = r.ingredients
       /\ workers' = [workers EXCEPT ![w] =
                         Done(@.op, IF r.raised THEN 500 ELSE 200)]
    /\ UNCHANGED <<users, pizzas, next_ingredient_id, assocs, last>>

\* ---- change_pizza
change_pizza_start(w, token, pizza_id, name, price, is_active) ==
    start(w, token, "change_pizza", "change_pizza:get_pizza",
          [pizza_id |-> pizza_id, name |-> name, price |-> price,
           is_active |-> is_active])

\* CRUD.get_pizza
change_pizza_get(w) ==
    /\ workers[w].pc = "change_pizza:get_pizza"
    /\ workers' = [workers EXCEPT ![w] =
          IF get_pizza(pizzas, @.args.pizza_id) = None
          THEN Done(@.op, 404)
          ELSE [@ EXCEPT !.pc = "change_pizza:change_pizza"]]
    /\ UNCHANGED <<store, last>>

\* CRUD.change_pizza on the object fetched before
change_pizza_update(w) ==
    /\ workers[w].pc = "change_pizza:change_pizza"
    /\ LET a == workers[w].args IN
       pizzas' = CRUD_change_pizza(pizzas, [id |-> a.pizza_id], a.name, a.price,
                                   a.is_active)
    /\ workers' = [workers EXCEPT ![w] = Done(@.op, 200)]
    /\ UNCHANGED <<users, ingredients, next_ingredient_id, assocs, last>>

\* the response is sent and the worker is free again
respond(w) ==
    /\ workers[w].pc = "done"
    /\ workers' = [workers EXCEPT ![w] = Idle]
    /\ UNCHANGED <<store, last>>

\* ConcSpec: concurrent add-association, remove-association and
\* delete-ingredient requests.  They all name the first pizza: the races are
\* over the rows of one pizza and over the ingredients.
ConcNext ==
    \/ \E token \in RequestTokens, new_pizza \in PlainPizza : create_pizza(token, new_pizza)
    \/ \E token \in RequestTokens, new_ingredient \in PlainIngredient :
          create_ingredient(token, new_ingredient)
    \/ \E w \in Workers, token \in RequestTokens, pizza_id \in FirstPizza,
          ingredient_id \in IngredientIds : add_start(w, token, pizza_id, ingredient_id)
    \/ \E w \in Workers : add_get_pizza(w)
    \/ \E w \in Workers : add_get_ingredient(w)
    \/ \E w \in Workers : add_get_association(w)
    \/ \E w \in Workers : add_insert(w)
    \/ \E w \in Workers, token \in RequestTokens, ingredient_id \in IngredientIds :
          delete_start(w, token, ingredient_id)
    \/ \E w \in Workers : delete_get_ingredient(w)
    \/ \E w \in Workers : delete_delete(w)
    \/ \E w \in Workers, token \in RequestTokens, pizza_id \in FirstPizza,
          ingredient_id \in IngredientIds : remove_start(w, token, pizza_id, ingredient_id)
    \/ \E w \in Workers : remove_get_association(w)
    \/ \E w \in Workers : remove_delete(w)
    \/ \E w \in Workers : respond(w)

ConcSpec == Init /\ [][ConcNext]_vars

\* ConcCatalogSpec: concurrent partial updates of the first pizza and of the
\* ingredients, together with delete-ingredient requests.
PizzaChanges ==
    {[name |-> None, price |-> Some(2), is_active |-> None],
     [name |-> Some("napoli"), price |-> None, is_active |-> None]}

ConcCatalogNext ==
    \/ \E token \in RequestTokens, new_pizza \in PlainPizza : create_pizza(token, new_pizza)
    \/ \E token \in RequestTokens, new_ingredient \in PlainIngredient :
          create_ingredient(token, new_ingredient)
    \/ \E w \in Workers, token \in RequestTokens, pizza_id \in FirstPizza,
          c \in PizzaChanges :
          change_pizza_start(w, token, pizza_id, c.name, c.price, c.is_active)
    \/ \E w \in Workers : change_pizza_get(w)
    \/ \E w \in Workers : change_pizza_update(w)
    \/ \E w \in Workers, token \in RequestTokens, ingredient_id \in IngredientIds :
          change_ingredient_start(w, token, ingredient_id, Some("oregano"), None)
    \/ \E w \in Workers : change_ingredient_get(w)
    \/ \E w \in Workers : change_ingredient_update(w)
    \/ \E w \in Workers, token \in RequestTokens, ingredient_id \in IngredientIds :
          delete_start(w, token, ingredient_id)
    \/ \E w \in Workers : delete_get_ingredient(w)
    \/ \E w \in Workers : delete_delete(w)
    \/ \E w \in Workers : respond(w)

ConcCatalogSpec == Init /\ [][ConcCatalogNext]_vars

\* ================================================================ properties
\* In a step of Spec or SpecPizza, last' is the request just served and its
\* response, and the unprimed variables are the store it was served from.
Authenticated(r) == get_current_user(users, Val(r.token)) # None
Pair(r) == <<r.args.pizza_id, r.args.ingredient_id>>
RowsOfIngredient(ingredient_id) == {row \in BagToSet(assocs) : row[2] = ingredient_id}

\* C1: an authenticated add of a pair whose pizza and ingredient exist and that
\* is absent succeeds and creates its row; the same add repeated right after a
\* successful one returns 400 Conflict; either way exactly one row for the pair
\* exists afterwards.
C1_AddTwice ==
    [][ LET r == last' IN
        (/\ r.op = "add_ingredient_to_pizza"
         /\ Authenticated(r)
         /\ get_pizza(pizzas, r.args.pizza_id) # None
         /\ get_ingredient(ingredients, r.args.ingredient_id) # None)
        => /\ ~BagIn(Pair(r), assocs)
                => /\ r.status = 200
                   /\ r.body = Some([pizza_id |-> r.args.pizza_id,
                                     ingredient_id |-> r.args.ingredient_id])
                   /\ CopiesIn(Pair(r), assocs') = 1
           /\ (/\ last.op = "add_ingredient_to_pizza"
               /\ last.status = 200
               /\ last.args = r.args)
                => /\ r.status = 400
                   /\ r.detail = "Association already exists"
                   /\ assocs' = assocs
                   /\ CopiesIn(Pair(r), assocs') = 1
      ]_vars

C1_SecondAddConflicts ==
    /\ last.op = "add_ingredient_to_pizza"
    /\ last.status = 400
    /\ CopiesIn(Pair(last), assocs) = 1

\* C2: under every interleaving of the store calls of concurrent add requests,
\* no (pizza_id, ingredient_id) pair has two association rows.
C2_PairUnique == \A row \in BagToSet(assocs) : CopiesIn(row, assocs) = 1

\* Two requests for one pair both passed the duplicate check; the store
\* accepted one insert and rejected the other.
C2_RaceRejected ==
    \E w1, w2 \in Workers :
        /\ workers[w1] = Done("add_ingredient_to_pizza", 500)
        /\ workers[w2] = Done("add_ingredient_to_pizza", 200)

\* C3: signup with a username that is already stored returns 400 'The username
\* already exists' and leaves the set of users unchanged.
C3_SignupTaken ==
    [][ LET r == last' IN
        (/\ r.op = "create_user"
         /\ \E u \in users : u.username = r.args.username)
        => /\ r.status = 400
           /\ r.detail = "The username already exists"
           /\ users' = users
      ]_vars

C3_TakenRejected ==
    /\ last.op = "create_user"
    /\ last.status = 400
    /\ \E u \in users : u.username = last.args.username

\* C4: signup with a username that is not registered succeeds and stores a
\* user with the submitted username.
C4_SignupCreates ==
    [][ LET r == last' IN
        (/\ r.op = "create_user"
         /\ ~ \E u \in users : u.username = r.args.username)
        => /\ r.status = 200
           /\ \E u \in users' : u.username = r.args.username
      ]_vars

\* C5: an authenticated delete of an existing ingredient succeeds when no row
\* references it, and the ingredient is then gone (a lookup finds nothing, a
\* second delete or an update of it returns 404); when a row references it the
\* call returns 400 and ingredients and association rows are unchanged.
C5_DeleteIngredient ==
    [][ LET r == last' IN
        /\ (/\ r.op = "delete_ingredient"
            /\ Authenticated(r)
            /\ get_ingredient(ingredients, r.args.ingredient_id) # None)
           => IF RowsOfIngredient(r.args.ingredient_id) = {}
              THEN /\ r.status = 200
                   /\ get_ingredient(ingredients', r.args.ingredient_id) = None
              ELSE /\ r.status = 400
                   /\ r.detail = "Cannot delete an ingredient in an active pizza"
                   /\ get_ingredient(ingredients', r.args.ingredient_id) # None
                   /\ ingredients' = ingredients
                   /\ assocs' = assocs
        /\ (/\ last.op = "delete_ingredient"
            /\ last.status = 200
            /\ r.op \in {"delete_ingredient", "change_ingredient"}
            /\ Authenticated(r)
            /\ r.args.ingredient_id = last.args.ingredient_id)
           => r.status = 404
      ]_vars

\* A delete was just refused for a referenced ingredient, and an earlier delete
\* of another ingredient went through.
C5_RefusedAndDeleted ==
    /\ last.op = "delete_ingredient"
    /\ last.status = 400
    /\ RowsOfIngredient(last.args.ingredient_id) # {}
    /\ last.args.ingredient_id \in DOMAIN ingredients
    /\ \E id \in 1..(next_ingredient_id - 1) : id \notin DOMAIN ingredients

\* C6: a login whose username is not stored or whose password does not match
\* the stored hash gets status 400, detail 'Incorrect username or password' and
\* no token, whichever of the two causes applies.
C6_LoginFailure ==
    [][ LET r == last'
            user == get_user_by_username(users, r.args.username)
        IN
        (/\ r.op = "login"
         /\ \/ user = None
            \/ ~verify_password(r.args.password, Val(user).password))
        => /\ r.status = 400
           /\ r.detail = "Incorrect username or password"
           /\ r.body = None
      ]_vars

C6_UnknownUserRejected ==
    /\ last.op = "login"
    /\ last.status = 400
    /\ users # {}
    /\ get_user_by_username(users, last.args.username) = None

\* C7: an authenticated update of an existing pizza sets each supplied field to
\* the supplied value and keeps every field that is not supplied; the other
\* pizzas are unchanged and a get of the pizza returns the updated row.
C7_PartialUpdate ==
    [][ LET r == last' IN
        (/\ r.op = "change_pizza"
         /\ Authenticated(r)
         /\ get_pizza(pizzas, r.args.pizza_id) # None)
        => LET id == r.args.pizza_id IN
           /\ r.status = 200
           /\ DOMAIN pizzas' = DOMAIN pizzas
           /\ \A k \in DOMAIN pizzas : k # id => pizzas'[k] = pizzas[k]
           /\ pizzas'[id].name =
                 IF r.args.name = None THEN pizzas[id].name ELSE Val(r.args.name)
           /\ pizzas'[id].price =
                 IF r.args.price = None THEN pizzas[id].price ELSE Val(r.args.price)
           /\ pizzas'[id].is_active =
                 IF r.args.is_active = None THEN pizzas[id].is_active
                 ELSE Val(r.args.is_active)
           /\ get_pizza(pizzas', id) = r.body
      ]_vars

\* Only the price was supplied, on an inactive pizza, and it changed.
C7_OnlyPriceChanged ==
    /\ last.op = "change_pizza"
    /\ last.status = 200
    /\ last.args.name = None
    /\ last.args.is_active = None
    /\ last.args.price = Some(2)
    /\ pizzas[last.args.pizza_id] = [name |-> "napoli", price |-> 2, is_active |-> FALSE]

\* C8: an authenticated remove of a pair that has no association row returns
\* 404 'Association not found' and changes nothing in the store; so does a
\* remove repeated right after a successful one.
C8_RemoveAbsent ==
    [][ LET r == last' IN
        /\ (/\ r.op = "remove_ingredient_to_pizza"
            /\ Authenticated(r)
            /\ ~BagIn(Pair(r), assocs))
           => /\ r.status = 404
              /\ r.detail = "Association not found"
              /\ store' = store
        /\ (/\ last.op = "remove_ingredient_to_pizza"
            /\ last.status = 200
            /\ r.op = "remove_ingredient_to_pizza"
            /\ Authenticated(r)
            /\ r.args = last.args)
           => /\ r.status = 404
              /\ store' = store
      ]_vars

\* A remove of an absent pair was answered 404 while other rows exist.
C8_AbsentNotFound ==
    /\ last.op = "remove_ingredient_to_pizza"
    /\ last.status = 404
    /\ ~BagIn(Pair(last), assocs)
    /\ assocs # EmptyBag

\* C9: the list returned by show_pizzas holds every pizza, each with
\* ingredient_number equal to the number of association rows that reference
\* the pizza in the store the list was read from.
C9_IngredientNumber ==
    (last.op = "show_pizzas" /\ last.status = 200)
    => LET pizza_list == Val(last.body) IN
       /\ {pizza_list[k].id : k \in DOMAIN pizza_list} = DOMAIN pizzas
       /\ \A k \in DOMAIN pizza_list :
             pizza_list[k].ingredient_number =
                 Cardinality({ingredient_id \in IngredientIds :
                                 BagIn(<<pizza_list[k].id, ingredient_id>>, assocs)})

\* The list shows pizzas with different counts after an ingredient was deleted.
C9_CountsListed ==
    /\ last.op = "show_pizzas"
    /\ last.status = 200
    /\ \E k, m \in DOMAIN Val(last.body) :
          /\ Val(last.body)[k].ingredient_number = 1
          /\ Val(last.body)[m].ingredient_number = 0
    /\ \E id \in 1..(next_ingredient_id - 1) : id \notin DOMAIN ingredients

\* C10: under every interleaving of delete-ingredient, add-association and
\* remove-association requests, every association row references an ingredient
\* that exists: no referenced ingredient is deleted and no row is inserted for
\* a deleted ingredient.
C10_RowsReferenceIngredients ==
    \A row \in BagToSet(assocs) : row[2] \in DOMAIN ingredients

\* An add passed its ingredient check, a concurrent delete then removed the
\* only ingredient, and the add's insert was rejected: no row was written.
C10_InsertAfterDeleteRejected ==
    \E w1, w2 \in Workers :
        /\ workers[w1] = Done("add_ingredient_to_pizza", 500)
        /\ workers[w2] = Done("delete_ingredient", 200)
        /\ next_ingredient_id = 2
        /\ ingredients = <<>>
        /\ assocs = EmptyBag

====
